---- MODULE Spec2Model ----
(***************************************************************************)
(* A model of the frame-sequence crate (src/lib.rs): parse_frame_sequence  *)
(* turns a token tree into a raw frame list (plain, stepped and binary     *)
(* range expansion) and removes duplicates.  The pest grammar is consumed  *)
(* as given: the model starts from the parser's outcome, either Err or a   *)
(* token tree, as FrameSequenceParser::parse hands it to the crate's code. *)
(***************************************************************************)
EXTENDS Integers, Sequences, FiniteSets, TLC

\* ------------------------------------------------------------------ bounds
\* Width of the Frame type (isize) in the model, in bits.
FrameBits == 6
\* Most parts of a multi-part input.
MaxParts == 2
\* Frames of multi-part inputs are drawn from 0..NarrowMax.
NarrowMax == 2
\* Frames of single-range inputs are drawn from -WideMax..WideMax.
WideMax == 8
\* Steps of stepped ranges are drawn from 1..MaxStep.
MaxStep == 3
\* Nested chop invocations the stack holds before the process aborts.
MaxStack == 10

\* ------------------------------------------------- the Frame type (isize)
MinFrame == -(2 ^ (FrameBits - 1))
MaxFrame == (2 ^ (FrameBits - 1)) - 1
UsizeModulus == 2 ^ FrameBits

InFrame(x) == MinFrame <= x /\ x <= MaxFrame

\* Two's complement wraparound of a mathematical integer into isize.
Wrap(x) == ((x - MinFrame) % UsizeModulus) + MinFrame

\* `x as usize` for an isize x.
AsUsize(x) == x % UsizeModulus

\* isize division by 2: Rust's `/` truncates toward zero.
Half(x) == IF x >= 0 THEN x \div 2 ELSE -((-x) \div 2)

\* ------------------------------------------------------ iterator adaptors
\* The half-open range lo..hi as a list (empty when hi <= lo).
RangeExcl(lo, hi) == IF hi > lo THEN [k \in 1..(hi - lo) |-> lo + k - 1] ELSE <<>>

\* .rev()
Rev(s) == [k \in 1..Len(s) |-> s[Len(s) + 1 - k]]

\* .step_by(n): the first element, then every n-th one after it.
StepBy(s, n) == [k \in 1..((Len(s) + n - 1) \div n) |-> s[(k - 1) * n + 1]]

\* ------------------------------------------------------- range expansion
\* PlainRange with `left..right` for `left..right + 1`: the last frame is lost.
PlainRange_exclusive(left, right) ==
    IF left < right
    THEN [frames |-> RangeExcl(left, right), ovf |-> FALSE]
    ELSE IF right < left
    THEN [frames |-> Rev(RangeExcl(right, left)), ovf |-> FALSE]
    ELSE [frames |-> <<left>>, ovf |-> FALSE]

\* FrameRange without `@`: the frames, and whether `+ 1` left the type.
PlainRange(left, right) ==
    IF left < right
    THEN [frames |-> RangeExcl(left, Wrap(right + 1)), ovf |-> ~InFrame(right + 1)]
    ELSE IF right < left
    THEN [frames |-> Rev(RangeExcl(right, Wrap(left + 1))), ovf |-> ~InFrame(left + 1)]
    ELSE [frames |-> <<left>>, ovf |-> FALSE]

\* SteppedRange with the `.rev()` of the descending arm after `.step_by()`:
\* the steps are counted from right instead of left.
SteppedRange_rev_after_step(left, right, step) ==
    IF left < right
    THEN [frames |-> StepBy(RangeExcl(left, Wrap(right + 1)), AsUsize(step)),
          ovf |-> ~InFrame(right + 1)]
    ELSE IF left > right
    THEN [frames |-> Rev(StepBy(RangeExcl(right, Wrap(left + 1)), AsUsize(step))),
          ovf |-> ~InFrame(left + 1)]
    ELSE [frames |-> <<left>>, ovf |-> FALSE]

\* FrameRange with `@` PositiveNumber.
SteppedRange(left, right, step) ==
    IF left < right
    THEN [frames |-> StepBy(RangeExcl(left, Wrap(right + 1)), AsUsize(step)),
          ovf |-> ~InFrame(right + 1)]
    ELSE IF left > right
    THEN [frames |-> StepBy(Rev(RangeExcl(right, Wrap(left + 1))), AsUsize(step)),
          ovf |-> ~InFrame(left + 1)]
    ELSE [frames |-> <<left>>, ovf |-> FALSE]

\* ---------------------------------------------------- binary subdivision
\* One pass of chop's tuple_windows().flat_map(..) over seq, from window k on,
\* followed by the push of seq's last element.
RECURSIVE ChopWindows(_, _, _, _, _)
ChopWindows(seq, k, new_seq, result, ovf) ==
    IF k >= Len(seq)
    THEN [new_seq |-> Append(new_seq, seq[Len(seq)]), result |-> result, ovf |-> ovf]
    ELSE LET left == seq[k]
             sum == seq[k] + seq[k + 1]
             right == Half(Wrap(sum))
             o == ovf \/ ~InFrame(sum)
         IN  IF left < right
             THEN ChopWindows(seq, k + 1, new_seq \o <<left, right>>,
                              Append(result, right), o)
             ELSE ChopWindows(seq, k + 1, Append(new_seq, left), result, o)

\* ChopLevel with `vec![left]` in both arms of the closure: the midpoints are
\* pushed to result but never enter new_seq.
ChopLevel_no_midpoints(seq, result) ==
    [new_seq |-> seq,
     result |-> ChopWindows(seq, 1, <<>>, result, FALSE).result,
     ovf |-> ChopWindows(seq, 1, <<>>, result, FALSE).ovf]

ChopLevel(seq, result) == ChopWindows(seq, 1, <<>>, result, FALSE)

\* chop as a function of its arguments: the final value of result.
RECURSIVE chop(_, _, _)
chop(seq, result, elements) ==
    IF Len(seq) < elements
    THEN LET lv == ChopLevel(seq, result)
         IN  IF Len(lv.new_seq) < elements
             THEN chop(lv.new_seq, lv.result, elements)
             ELSE lv.result
    ELSE result

\* binary_sequence as a function of its range.
binary_sequence(left, right) ==
    IF left < right
    THEN chop(<<left, right>>, <<left, right>>, AsUsize(Wrap(right - left)))
    ELSE IF left > right
    THEN Rev(chop(<<right, left>>, <<right, left>>, AsUsize(Wrap(left - right))))
    ELSE <<left>>

\* ---------------------------------------------------------- deduplication
RECURSIVE FilterSeen(_, _, _, _)
FilterSeen(elements, k, set, kept) ==
    IF k > Len(elements)
    THEN kept
    ELSE IF elements[k] \in set
    THEN FilterSeen(elements, k + 1, set, kept)
    ELSE FilterSeen(elements, k + 1, set \cup {elements[k]}, Append(kept, elements[k]))

\* remove_duplicates that compares an element with its predecessor only.
remove_duplicates_adjacent(elements) ==
    LET keep == {k \in 1..Len(elements) : k = 1 \/ elements[k] # elements[k - 1]}
        nth(n) == CHOOSE k \in keep : Cardinality({j \in keep : j < k}) = n - 1
    IN  [n \in 1..Cardinality(keep) |-> elements[nth(n)]]

\* remove_duplicates that keeps the last occurrence of a value, not the first.
remove_duplicates_keep_last(elements) == Rev(FilterSeen(Rev(elements), 1, {}, <<>>))

remove_duplicates(elements) == FilterSeen(elements, 1, {}, <<>>)

\* ------------------------------------------------------------ token trees
FramePart(v) == [kind |-> "frame", left |-> v, right |-> v, step |-> 0]
RangePart(l, r) == [kind |-> "range", left |-> l, right |-> r, step |-> 0]
StepPart(l, r, s) == [kind |-> "step", left |-> l, right |-> r, step |-> s]
BinaryPart(l, r) == [kind |-> "binary", left |-> l, right |-> r, step |-> 0]

\* The FrameSequencePart nodes over the frames D and the steps S.
Parts(D, S) ==
    {FramePart(v) : v \in D}
        \cup {RangePart(l, r) : l \in D, r \in D}
        \cup {StepPart(p[1], p[2], s) : p \in D \X D, s \in S}
        \cup {BinaryPart(l, r) : l \in D, r \in D}

\* FrameSequence := FrameSequencePart ("," FrameSequencePart)*, up to n parts.
Trees(P, n) == UNION {[1..m -> P] : m \in 1..n}

\* Result<Pairs, Error> of FrameSequenceParser::parse.
ParseOk(tree) == [ok |-> TRUE, parts |-> tree]
ParseErr == [ok |-> FALSE, parts |-> <<>>]

NarrowFrames == 0..NarrowMax
WideFrames == (-WideMax)..WideMax
EdgeFrames == {MinFrame, MinFrame + 1, -1, 0, 1, MaxFrame - 3, MaxFrame - 1, MaxFrame}
Steps == 1..MaxStep

VARIABLES build, input, pc, i, raw, seq, result, elements, depth, out, ret, overflowed

vars == <<build, input, pc, i, raw, seq, result, elements, depth, out, ret, overflowed>>

\* The state before parse_frame_sequence runs on the input.
Start ==
    /\ build \in {"debug", "release"}
    /\ pc = "start"
    /\ i = 1
    /\ raw = <<>>
    /\ seq = <<>>
    /\ result = <<>>
    /\ elements = 0
    /\ depth = 0
    /\ out = <<>>
    /\ ret = "pending"
    /\ overflowed = FALSE

\* Inputs of several parts over few frames.
InitSeq ==
    /\ input \in {ParseErr} \cup {ParseOk(t) : t \in Trees(Parts(NarrowFrames, {1, 2}), MaxParts)}
    /\ Start

\* Inputs of one part over a wider interval of frames of either sign.
InitRange ==
    /\ input \in {ParseErr} \cup {ParseOk(<<p>>) : p \in Parts(WideFrames, Steps)}
    /\ Start

\* Inputs of one part whose bounds lie at and near the limits of the type.
InitWidth ==
    /\ input \in {ParseErr} \cup {ParseOk(<<p>>) : p \in Parts(EdgeFrames, Steps)}
    /\ Start

Init == InitSeq \/ InitRange

\* ParseInput that runs the closure on the empty tree of a rejected input.
ParseInput_ignores_error ==
    /\ pc = "start"
    /\ pc' = "interp"
    /\ UNCHANGED <<build, input, i, raw, seq, result, elements, depth, out, ret, overflowed>>

\* parse_frame_sequence: FrameSequenceParser::parse(..).map(closure).  On Err
\* the closure is not called and the error is the result.
ParseInput ==
    /\ pc = "start"
    /\ IF input.ok
       THEN /\ pc' = "interp"
            /\ ret' = ret
       ELSE /\ pc' = "error"
            /\ ret' = "Err"
    /\ UNCHANGED <<build, input, i, raw, seq, result, elements, depth, out, overflowed>>

\* The panic of an overflowing operation in a build with overflow checks.
Panics(ovf) == ovf /\ build = "debug"

\* frame_sequence_token_tree_to_frames: the flat_map closure on part i.
InterpretPart ==
    /\ pc = "interp"
    /\ i <= Len(input.parts)
    /\ LET p == input.parts[i]
           e == IF p.kind = "frame" THEN [frames |-> <<p.left>>, ovf |-> FALSE]
                ELSE IF p.kind = "range" THEN PlainRange(p.left, p.right)
                ELSE IF p.kind = "step" THEN SteppedRange(p.left, p.right, p.step)
                ELSE [frames |-> <<p.left>>, ovf |-> FALSE]
           lo == IF p.left < p.right THEN p.left ELSE p.right
           hi == IF p.left < p.right THEN p.right ELSE p.left
       IN  IF p.kind = "binary" /\ p.left # p.right
           THEN \* binary_sequence, Less and Greater: up to the call of chop
                /\ overflowed' = (overflowed \/ ~InFrame(hi - lo))
                /\ IF Panics(~InFrame(hi - lo))
                   THEN /\ pc' = "panic"
                        /\ UNCHANGED <<seq, result, elements, depth>>
                   ELSE /\ pc' = "chop"
                        /\ seq' = <<lo, hi>>
                        /\ result' = <<lo, hi>>
                        /\ elements' = AsUsize(Wrap(hi - lo))
                        /\ depth' = 0
                /\ UNCHANGED <<i, raw>>
           ELSE /\ overflowed' = (overflowed \/ e.ovf)
                /\ IF Panics(e.ovf)
                   THEN /\ pc' = "panic"
                        /\ UNCHANGED <<i, raw>>
                   ELSE /\ pc' = "interp"
                        /\ raw' = raw \o e.frames
                        /\ i' = i + 1
                /\ UNCHANGED <<seq, result, elements, depth>>
    /\ UNCHANGED <<build, input, out, ret>>

\* One invocation of chop.
ChopCall ==
    /\ pc = "chop"
    /\ IF depth >= MaxStack
       THEN /\ pc' = "abort"
            /\ UNCHANGED <<seq, result, depth, overflowed>>
       ELSE /\ depth' = depth + 1
            /\ IF Len(seq) < elements
               THEN LET lv == ChopLevel(seq, result)
                    IN  /\ overflowed' = (overflowed \/ lv.ovf)
                        /\ IF Panics(lv.ovf)
                           THEN /\ pc' = "panic"
                                /\ UNCHANGED <<seq, result>>
                           ELSE /\ seq' = lv.new_seq
                                /\ result' = lv.result
                                /\ pc' = IF Len(lv.new_seq) < elements
                                         THEN "chop" ELSE "binret"
               ELSE /\ pc' = "binret"
                    /\ UNCHANGED <<seq, result, overflowed>>
    /\ UNCHANGED <<build, input, i, raw, elements, out, ret>>

\* binary_sequence after chop returned: the result, reversed for a descending
\* range, joins the raw list.
BinaryReturn ==
    /\ pc = "binret"
    /\ LET p == input.parts[i]
       IN  raw' = raw \o (IF p.left > p.right THEN Rev(result) ELSE result)
    /\ i' = i + 1
    /\ pc' = "interp"
    /\ UNCHANGED <<build, input, seq, result, elements, depth, out, ret, overflowed>>

\* remove_duplicates on the collected list; parse_frame_sequence returns Ok.
Dedup ==
    /\ pc = "interp"
    /\ i > Len(input.parts)
    /\ out' = remove_duplicates(raw)
    /\ ret' = "Ok"
    /\ pc' = "done"
    /\ UNCHANGED <<build, input, i, raw, seq, result, elements, depth, overflowed>>

Next == ParseInput \/ InterpretPart \/ ChopCall \/ BinaryReturn \/ Dedup

Spec == Init /\ [][Next]_vars

RangeSpec == InitRange /\ [][Next]_vars /\ WF_vars(Next)

WidthSpec == InitWidth /\ [][Next]_vars

\* ------------------------------------------------------------- the claims
SinglePart(kind) == input.ok /\ Len(input.parts) = 1 /\ input.parts[1].kind = kind
Part1 == input.parts[1]
Lo1 == IF Part1.left < Part1.right THEN Part1.left ELSE Part1.right
Hi1 == IF Part1.left < Part1.right THEN Part1.right ELSE Part1.left
Range(s) == {s[k] : k \in 1..Len(s)}
NoRepeat(s) == \A j \in 1..Len(s) : \A k \in 1..Len(s) : j # k => s[j] # s[k]

\* C1: for a binary range a-b@b with a # b the output is a permutation of
\* exactly the integers of [min(a,b), max(a,b)].
C1_BinaryIsPermutation ==
    (pc = "done" /\ SinglePart("binary") /\ Part1.left # Part1.right)
        => /\ Range(out) = Lo1..Hi1
           /\ Len(out) = Hi1 - Lo1 + 1

\* C2: for a binary range left-right@b with left # right the first element of
\* the output is left and the second is right, ascending or descending.
C2_BinaryStartsWithBounds ==
    (pc = "done" /\ SinglePart("binary") /\ Part1.left # Part1.right)
        => /\ Len(out) >= 2
           /\ out[1] = Part1.left
           /\ out[2] = Part1.right

\* The values left, left+s, left+2s, ... up to right (left, left-s, ... down
\* to right for a descending range).
SteppedFrames(left, right, s) ==
    IF left <= right
    THEN [k \in 1..(((right - left) \div s) + 1) |-> left + (k - 1) * s]
    ELSE [k \in 1..(((left - right) \div s) + 1) |-> left - (k - 1) * s]

\* C3: a stepped range left-right@s yields exactly left, left+s, ... <= right
\* (left, left-s, ... >= right when descending): every value is congruent to
\* left modulo s and within the bounds, and right is emitted exactly when
\* |right - left| is a multiple of s.
C3_SteppedRange ==
    (pc = "done" /\ SinglePart("step"))
        => /\ out = SteppedFrames(Part1.left, Part1.right, Part1.step)
           /\ \A k \in 1..Len(out) :
                 /\ (out[k] - Part1.left) % Part1.step = 0
                 /\ Lo1 <= out[k] /\ out[k] <= Hi1
           /\ (Part1.right \in Range(out)) <=> ((Hi1 - Lo1) % Part1.step = 0)

C3_Witness ==
    /\ pc = "done" /\ SinglePart("step")
    /\ Part1.left > Part1.right /\ Part1.right < 0
    /\ Part1.step > 1
    /\ (Part1.left - Part1.right) % Part1.step # 0
    /\ Len(out) >= 3

\* C4: the list parse_frame_sequence returns holds no value twice.
C4_NoDuplicates == (pc = "done") => NoRepeat(out)

C4_Witness ==
    /\ pc = "done" /\ Len(input.parts) = 2
    /\ input.parts[1].kind = "binary" /\ input.parts[2].kind = "step"
    /\ input.parts[1].left > input.parts[1].right
    /\ Len(out) + 2 <= Len(raw)

\* C5: a plain range a-b yields a, a+1, ..., b when a < b, a, a-1, ..., b when
\* a > b, and [a] when a = b.
C5_PlainRange ==
    (pc = "done" /\ SinglePart("range"))
        => /\ Len(out) = Hi1 - Lo1 + 1
           /\ \A k \in 1..Len(out) :
                 out[k] = IF Part1.left < Part1.right
                          THEN Part1.left + (k - 1) ELSE Part1.left - (k - 1)

C5_Witness ==
    /\ pc = "done" /\ SinglePart("range")
    /\ Part1.left > 0 /\ Part1.right < 0
    /\ Len(out) >= 4

\* The expansion of one part, and the concatenation of the expansions.
Expansion(p) ==
    IF p.kind = "frame" THEN <<p.left>>
    ELSE IF p.kind = "range" THEN SteppedFrames(p.left, p.right, 1)
    ELSE IF p.kind = "step" THEN SteppedFrames(p.left, p.right, p.step)
    ELSE binary_sequence(p.left, p.right)

RECURSIVE Concat(_)
Concat(parts) ==
    IF parts = <<>> THEN <<>>
    ELSE Concat(SubSeq(parts, 1, Len(parts) - 1)) \o Expansion(parts[Len(parts)])

\* s with every element that occurred earlier in s left out.
RECURSIVE FirstOccurrences(_)
FirstOccurrences(s) ==
    IF s = <<>> THEN <<>>
    ELSE LET front == SubSeq(s, 1, Len(s) - 1)
             last == s[Len(s)]
         IN  IF last \in Range(front)
             THEN FirstOccurrences(front)
             ELSE Append(FirstOccurrences(front), last)

\* C6: the output on p1,...,pk is the left-to-right concatenation of the
\* expansions of p1..pk with every element after its first occurrence removed.
C6_ConcatThenFirstOccurrences ==
    (pc = "done") => out = FirstOccurrences(Concat(input.parts))

C6_Witness ==
    /\ pc = "done" /\ Len(input.parts) = 2
    /\ input.parts[1].kind = "range" /\ input.parts[2].kind = "binary"
    /\ Len(out) < Len(raw)
    /\ out # <<>> /\ out[Len(out)] # raw[Len(raw)]

\* C7: when the parser rejects the input the result is the error and no frame
\* list: interpreter, range expansion and deduplicator never run.
C7_RejectedInputYieldsOnlyError ==
    (~input.ok)
        => /\ pc \in {"start", "error"}
           /\ ret \in {"pending", "Err"}
           /\ (pc = "error" <=> ret = "Err")
           /\ raw = <<>> /\ out = <<>> /\ i = 1
           /\ seq = <<>> /\ result = <<>> /\ depth = 0

C7_Witness == pc = "error" /\ ret = "Err" /\ ~input.ok

\* The reference algorithm on an ascending pair: bisect every window with the
\* floor midpoint until the sequence holds n = b - a + 1 elements.
RECURSIVE RefWindows(_, _, _, _)
RefWindows(sequence, k, next, res) ==
    IF k >= Len(sequence)
    THEN [next |-> Append(next, sequence[Len(sequence)]), res |-> res]
    ELSE LET left == sequence[k]
             mid == (sequence[k] + sequence[k + 1]) \div 2
         IN  IF left < mid
             THEN RefWindows(sequence, k + 1, next \o <<left, mid>>, Append(res, mid))
             ELSE RefWindows(sequence, k + 1, Append(next, left), res)

RECURSIVE RefLoop(_, _, _)
RefLoop(sequence, res, n) ==
    IF Len(sequence) < n
    THEN LET lv == RefWindows(sequence, 1, <<>>, res)
         IN  RefLoop(lv.next, lv.res, n)
    ELSE res

RefBinary(a, b) ==
    IF a < b THEN RefLoop(<<a, b>>, <<a, b>>, b - a + 1)
    ELSE Rev(RefLoop(<<b, a>>, <<b, a>>, a - b + 1))

\* C8: binary_sequence((a, b)), before deduplication, equals the reference
\* algorithm's result for a < b and its reverse on (b, a) for a > b.
C8_BinaryEqualsReference ==
    (pc = "done" /\ SinglePart("binary") /\ Part1.left # Part1.right)
        => raw = RefBinary(Part1.left, Part1.right)

Abs(x) == IF x < 0 THEN -x ELSE x
PartI == input.parts[i]

\* The least k with 2^k >= n.
CeilLog2(n) == CHOOSE k \in 0..n : 2 ^ k >= n /\ \A j \in 0..(k - 1) : 2 ^ j < n

\* C9: chop terminates, within ceil(log2(n)) nested invocations for
\* n = |b - a| + 1, and every invocation that recurses lengthens the sequence.
C9_ChopTerminates ==
    /\ [](pc \in {"chop", "binret"} => depth <= CeilLog2(Abs(PartI.right - PartI.left) + 1))
    /\ [][(pc = "chop" /\ pc' = "chop") => Len(seq') > Len(seq)]_vars
    /\ <>(pc \in {"done", "error"})

C9_Witness ==
    /\ pc = "binret" /\ depth >= 3
    /\ PartI.right < 0
    /\ \E k \in 1..(Len(seq) - 1) : seq[k] = seq[k + 1]

\* C10: range expansion computes no intermediate value outside the Frame type.
C10_NoOverflow == ~overflowed

====
